---- MODULE Spec2Model ----
(***************************************************************************)
(* BasisLib.ops.safe: numerically stable L2-norm and normalisation.        *)
(*                                                                         *)
(* The three functions of safe.py are pure functions of a floating-point   *)
(* array.  The arithmetic is modelled by a binary floating-point format    *)
(* with the structure of IEEE 754 (subnormals, round-to-nearest-even,      *)
(* overflow to infinity) and a small precision and exponent range.  A      *)
(* finite value is the integer number of smallest subnormals it is worth.  *)
(***************************************************************************)
EXTENDS Integers, Sequences, FiniteSets

\* ------------------------------------------------------------ the dtype
\* Significand bits of the format.
Prec == 4
\* Binades between the smallest normal value and 1.0.
EOne == 4
\* Binades between 1.0 and the largest binade.
EMax == 3

RECURSIVE Pow2(_)
Pow2(n) == IF n <= 0 THEN 1 ELSE 2 * Pow2(n - 1)

\* np.finfo(dtype).tiny: the smallest positive normal value.
Tiny == Pow2(Prec - 1)
\* 1.0
One == Tiny * Pow2(EOne)
\* np.finfo(dtype).max
MaxFinite == (Pow2(Prec) - 1) * Pow2(EOne + EMax)
\* +inf (the stand-in is the first power of two past MaxFinite)
PosInf == Pow2(Prec + EOne + EMax)

\* NaN (the stand-in is past PosInf; it is no magnitude and is never compared
\* as one)
NaN == Pow2(Prec + EOne + EMax) + 1

Abs(k) == IF k < 0 THEN -k ELSE k
Sign(k) == IF k < 0 THEN -1 ELSE 1
IsNaN(k) == k = NaN
IsInf(k) == Abs(k) = PosInf
IsFinite(k) == Abs(k) <= MaxFinite
\* np.abs
FAbs(k) == IF IsNaN(k) THEN NaN ELSE Abs(k)

\* The first magnitude past the subnormal values and the first binade.
TwoP == Pow2(Prec)
\* The distance between neighbouring values of the format at magnitude f.
RECURSIVE Spacing(_)
Spacing(f) == IF f < TwoP THEN 1 ELSE 2 * Spacing(f \div 2)

Representable(k) ==
    IsNaN(k) \/ IsInf(k) \/ (IsFinite(k) /\ Abs(k) % Spacing(Abs(k)) = 0)

\* The value of the format nearest to n/d (n >= 0, d > 0), ties to the even
\* significand, PosInf past MaxFinite.
RoundRat(n, d) ==
    LET f == n \div d
        s == Spacing(f)
        lo == (f \div s) * s
        hi == lo + s
        twice == 2 * (n - lo * d)
        r == IF twice < s * d THEN lo
             ELSE IF twice > s * d THEN hi
             ELSE IF (lo \div s) % 2 = 0 THEN lo ELSE hi
    IN IF r > MaxFinite THEN PosInf ELSE r

RECURSIVE Isqrt(_)
Isqrt(q) == IF q < 2 THEN q
            ELSE LET r == 2 * Isqrt(q \div 4)
                 IN IF (r + 1) * (r + 1) <= q THEN r + 1 ELSE r

\* x / y: 0/0 and inf/inf are NaN, a non-zero value over 0 is an infinity.
FDiv(x, y) ==
    IF IsNaN(x) \/ IsNaN(y) THEN NaN
    ELSE IF y = 0 THEN (IF x = 0 THEN NaN ELSE Sign(x) * PosInf)
    ELSE IF IsInf(x) THEN (IF IsInf(y) THEN NaN ELSE Sign(x) * Sign(y) * PosInf)
    ELSE IF IsInf(y) THEN 0
    ELSE Sign(x) * Sign(y) * RoundRat(Abs(x) * One, Abs(y))

\* x * y: 0 * inf is NaN.
FMul(x, y) ==
    IF IsNaN(x) \/ IsNaN(y) THEN NaN
    ELSE IF IsInf(x) \/ IsInf(y)
         THEN (IF x = 0 \/ y = 0 THEN NaN ELSE Sign(x) * Sign(y) * PosInf)
    ELSE Sign(x) * Sign(y) * RoundRat(Abs(x) * Abs(y), One)

\* x + y: inf + -inf is NaN.
FAdd(x, y) ==
    IF IsNaN(x) \/ IsNaN(y) THEN NaN
    ELSE IF IsInf(x) THEN (IF IsInf(y) /\ x # y THEN NaN ELSE x)
    ELSE IF IsInf(y) THEN y
    ELSE Sign(x + y) * RoundRat(Abs(x + y), 1)

\* np.sqrt(s): NaN for a negative s.
FSqrt(s) ==
    IF IsNaN(s) \/ s < 0 THEN NaN
    ELSE IF IsInf(s) THEN PosInf
    ELSE LET q == s * One
             f == Isqrt(q)
             sp == Spacing(f)
             lo == (f \div sp) * sp
             hi == lo + sp
             m2 == (2 * lo + sp) * (2 * lo + sp)
         IN IF 4 * q < m2 THEN lo
            ELSE IF 4 * q > m2 THEN hi
            ELSE IF (lo \div sp) % 2 = 0 THEN lo ELSE hi

\* np.maximum(x, y): NaN if either is.
FMax(x, y) == IF IsNaN(x) \/ IsNaN(y) THEN NaN ELSE IF x >= y THEN x ELSE y

\* x > y: false if either is NaN.
FGreater(x, y) == ~IsNaN(x) /\ ~IsNaN(y) /\ x > y

\* ------------------------------------------------------------ arrays
\* An array is [err, shape, data]: err = "" for an array, whose data maps each
\* index (a sequence of 0-based positions, one per axis) to its element;
\* err names the exception when the call that should have produced the array
\* raised instead.
NoData == [i \in {} |-> 0]
Raised(e) == [err |-> e, shape |-> <<>>, data |-> NoData]
Absent == Raised("absent")
IsArray(arr) == arr.err = ""

RECURSIVE Indices(_)
Indices(shape) ==
    IF shape = <<>> THEN {<<>>}
    ELSE {<<i>> \o t : i \in 0..(shape[1] - 1), t \in Indices(Tail(shape))}

RECURSIVE Size(_)
Size(shape) == IF shape = <<>> THEN 1 ELSE shape[1] * Size(Tail(shape))

\* Row-major position of an index.
RECURSIVE Offset(_, _)
Offset(idx, shape) ==
    IF shape = <<>> THEN 0
    ELSE idx[1] * Size(Tail(shape)) + Offset(Tail(idx), Tail(shape))

\* An axis argument is [kind, v]: kind "none" (axis=None), "int" (v = <<k>>)
\* or "tuple" (v = the tuple).
AxisNone == [kind |-> "none", v |-> <<>>]
AxisInt(k) == [kind |-> "int", v |-> <<k>>]
AxisTuple(t) == [kind |-> "tuple", v |-> t]

\* A negative index counts from the last axis.
NormAxis(k, r) == IF k < 0 THEN k + r ELSE k

\* The 0-based axes an axis argument reduces over, for rank r.
AxisSet(axis, r) ==
    IF axis.kind = "none" THEN 0..(r - 1)
    ELSE {NormAxis(axis.v[i], r) : i \in 1..Len(axis.v)}

\* The axis arguments the array engine accepts for rank r.
ValidAxis(axis, r) ==
    \/ axis.kind = "none"
    \/ /\ \A i \in 1..Len(axis.v) : axis.v[i] \in (-r)..(r - 1)
       /\ \A i, j \in 1..Len(axis.v) :
              i # j => NormAxis(axis.v[i], r) # NormAxis(axis.v[j], r)

\* s without the positions of the axes Ax.
RECURSIVE DropFrom(_, _, _)
DropFrom(s, Ax, k) ==
    IF k > Len(s) THEN <<>>
    ELSE (IF (k - 1) \in Ax THEN <<>> ELSE <<s[k]>>) \o DropFrom(s, Ax, k + 1)
DropAxes(s, Ax) == DropFrom(s, Ax, 1)

\* s with v at the positions of the axes Ax.
RECURSIVE SetFrom(_, _, _, _)
SetFrom(s, Ax, v, k) ==
    IF k > Len(s) THEN <<>>
    ELSE <<IF (k - 1) \in Ax THEN v ELSE s[k]>> \o SetFrom(s, Ax, v, k + 1)
SetAxes(s, Ax, v) == SetFrom(s, Ax, v, 1)

\* The additions of one output element, in row-major order of the inputs.
RECURSIVE SumSet(_, _)
SumSet(arr, S) ==
    IF S = {} THEN 0
    ELSE LET last == CHOOSE i \in S :
                         \A j \in S : Offset(j, arr.shape) <= Offset(i, arr.shape)
         IN FAdd(SumSet(arr, S \ {last}), arr.data[last])

\* np.sum(arr, axis=axis, keepdims=keepdims)
NpSum(arr, axis, keepdims) ==
    LET Ax == AxisSet(axis, Len(arr.shape))
        Proj(s, v) == IF keepdims THEN SetAxes(s, Ax, v) ELSE DropAxes(s, Ax)
        oshape == Proj(arr.shape, 1)
    IN [err |-> "", shape |-> oshape,
        data |-> [o \in Indices(oshape) |->
                     SumSet(arr, {i \in Indices(arr.shape) : Proj(i, 0) = o})]]

\* NpSqueeze without its axis argument: every axis of size 1 is removed.
NpSqueezeAll(arr, axis) ==
    LET r == Len(arr.shape)
        Ax == {k \in 0..(r - 1) : arr.shape[k + 1] = 1}
        oshape == DropAxes(arr.shape, Ax)
    IN [err |-> "", shape |-> oshape,
        data |-> [o \in Indices(oshape) |->
            arr.data[CHOOSE i \in Indices(arr.shape) : DropAxes(i, Ax) = o]]]

\* np.squeeze(arr, axis=axis)
NpSqueeze(arr, axis) ==
    LET r == Len(arr.shape)
        Ax == IF axis.kind = "none" THEN {k \in 0..(r - 1) : arr.shape[k + 1] = 1}
              ELSE AxisSet(axis, r)
    IN IF ~ValidAxis(axis, r) THEN Raised("AxisError")
       ELSE IF \E k \in Ax : arr.shape[k + 1] # 1 THEN Raised("ValueError")
       ELSE LET oshape == DropAxes(arr.shape, Ax)
            IN [err |-> "", shape |-> oshape,
                data |-> [o \in Indices(oshape) |->
                    arr.data[CHOOSE i \in Indices(arr.shape) : DropAxes(i, Ax) = o]]]

\* The array of the shape of arr with the elements d.
WithData(arr, d) == [err |-> "", shape |-> arr.shape, data |-> d]

\* Broadcasting (the trailing axes are aligned, a size-1 axis is stretched).
RECURSIVE Ones(_)
Ones(n) == IF n <= 0 THEN <<>> ELSE <<1>> \o Ones(n - 1)
PadTo(shape, r) == Ones(r - Len(shape)) \o shape
RECURSIVE BShape(_, _)
BShape(sa, sb) ==
    IF sa = <<>> THEN <<>>
    ELSE <<IF sa[1] = 1 THEN sb[1] ELSE sa[1]>> \o BShape(Tail(sa), Tail(sb))
\* The index of the operand element (shape s, rank-padded ps) used at index o.
RECURSIVE Pick(_, _)
Pick(o, ps) ==
    IF ps = <<>> THEN <<>>
    ELSE <<IF ps[1] = 1 THEN 0 ELSE o[1]>> \o Pick(Tail(o), Tail(ps))
Operand(arr, o, r) ==
    arr.data[SubSeq(Pick(o, PadTo(arr.shape, r)), r - Len(arr.shape) + 1, r)]

\* u / w with broadcasting.
NpDivide(u, w) ==
    LET r == IF Len(u.shape) >= Len(w.shape) THEN Len(u.shape) ELSE Len(w.shape)
        pu == PadTo(u.shape, r)
        pw == PadTo(w.shape, r)
    IN IF \E k \in 1..r : pu[k] # pw[k] /\ pu[k] # 1 /\ pw[k] # 1
       THEN Raised("ValueError")
       ELSE LET oshape == BShape(pu, pw)
            IN [err |-> "", shape |-> oshape,
                data |-> [o \in Indices(oshape) |->
                             FDiv(Operand(u, o, r), Operand(w, o, r))]]

\* np.max(np.abs(x)) of an array with at least one element.
MaxAbs(arr) ==
    LET mags == {FAbs(arr.data[i]) : i \in DOMAIN arr.data}
    IN IF NaN \in mags THEN NaN
       ELSE CHOOSE m \in mags : \A v \in mags : v <= m

\* ------------------------------------------------------------ safe.py
\* NormA without the floor at tiny.
NormAUnfloored(arr) == MaxAbs(arr)

\* a = np.maximum(np.max(np.abs(x)), np.finfo(x.dtype).tiny)
NormA(arr) == FMax(MaxAbs(arr), Tiny)

\* NormB without the rescaling.
NormBUnscaled(arr, a) == arr

\* b = x / a
NormB(arr, a) == WithData(arr, [i \in DOMAIN arr.data |-> FDiv(arr.data[i], a)])

\* NormSumSq with axis not passed on to the sum.
NormSumSqAllAxes(b, axis, keepdims) ==
    NpSum(WithData(b, [i \in DOMAIN b.data |-> FMul(b.data[i], b.data[i])]), AxisNone, keepdims)

\* NormSumSq with keepdims not passed on to the sum.
NormSumSqUnkept(b, axis, keepdims) ==
    NpSum(WithData(b, [i \in DOMAIN b.data |-> FMul(b.data[i], b.data[i])]), axis, FALSE)

\* np.sum(b * b, axis=axis, keepdims=keepdims)
NormSumSq(b, axis, keepdims) ==
    NpSum(WithData(b, [i \in DOMAIN b.data |-> FMul(b.data[i], b.data[i])]), axis, keepdims)

\* norm: its local values a and b, the sum of squares ss and the value
\* returned, res.  np.max of an array without elements raises ValueError.
NormSteps(arr, axis, keepdims) ==
    IF Size(arr.shape) = 0
    THEN [a |-> 0, b |-> Absent, ss |-> Absent, res |-> Raised("ValueError")]
    ELSE LET a == NormA(arr)
             b == NormB(arr, a)
             ss == NormSumSq(b, axis, keepdims)
         IN [a |-> a, b |-> b, ss |-> ss,
             res |-> WithData(ss, [o \in DOMAIN ss.data |-> FMul(a, FSqrt(ss.data[o]))])]

norm(arr, axis, keepdims) == NormSteps(arr, axis, keepdims).res

\* Divisor with n*n >= tiny for n*n > tiny.
DivisorFromTiny(n) ==
    WithData(n, [o \in DOMAIN n.data |->
        IF ~FGreater(Tiny, FMul(n.data[o], n.data[o])) THEN n.data[o] ELSE One])

\* Divisor without the guard.
DivisorUnguarded(n) == n

\* np.where(n * n > np.finfo(x.dtype).tiny, n, 1)
Divisor(n) ==
    WithData(n, [o \in DOMAIN n.data |->
        IF FGreater(FMul(n.data[o], n.data[o]), Tiny) THEN n.data[o] ELSE One])

\* NormalizeSteps with the caller's keepdims passed to norm.
NormalizeStepsCallerKeepdims(arr, axis, keepdims) ==
    LET n0 == norm(arr, axis, keepdims)
    IN IF ~IsArray(n0) THEN [n0 |-> n0, w |-> Absent, y |-> n0, n |-> n0]
       ELSE LET w == Divisor(n0)
                y == NpDivide(arr, w)
                n == IF ~keepdims THEN NpSqueeze(n0, axis) ELSE n0
            IN IF ~IsArray(y) THEN [n0 |-> n0, w |-> w, y |-> y, n |-> y]
               ELSE IF ~IsArray(n) THEN [n0 |-> n0, w |-> w, y |-> n, n |-> n]
               ELSE [n0 |-> n0, w |-> w, y |-> y, n |-> n]

\* normalize_and_return_norm: the norm n0 of line 60, the divisor w of line
\* 62, and the pair (y, n) returned.  An exception of a call ends it.
NormalizeSteps(arr, axis, keepdims) ==
    LET n0 == norm(arr, axis, TRUE)
    IN IF ~IsArray(n0) THEN [n0 |-> n0, w |-> Absent, y |-> n0, n |-> n0]
       ELSE LET w == Divisor(n0)
                y == NpDivide(arr, w)
                n == IF ~keepdims THEN NpSqueeze(n0, axis) ELSE n0
            IN IF ~IsArray(y) THEN [n0 |-> n0, w |-> w, y |-> y, n |-> y]
               ELSE IF ~IsArray(n) THEN [n0 |-> n0, w |-> w, y |-> n, n |-> n]
               ELSE [n0 |-> n0, w |-> w, y |-> y, n |-> n]

normalize_and_return_norm(arr, axis, keepdims) ==
    LET st == NormalizeSteps(arr, axis, keepdims) IN [y |-> st.y, n |-> st.n]

\* normalize: y, _ = normalize_and_return_norm(x, axis=axis, keepdims=True)
normalize(arr, axis) == normalize_and_return_norm(arr, axis, TRUE).y

\* ------------------------------------------------------------ the calls
\* Largest rank of an input array.
MaxRank == 2
\* Largest size of one axis of an input array.
MaxDim == 2
\* Largest number of elements of an input array.
MaxElems == 4

VARIABLES
    x,          \* the input array
    axis,       \* the axis argument
    keepdims,   \* the keepdims argument
    op,         \* the function called: "idle" before the call
    resY,       \* the normalized array returned (Absent if the function returns none)
    resN,       \* the norm returned (Absent if the function returns none)
    tr          \* the local values of the call

vars == <<x, axis, keepdims, op, resY, resN, tr>>

\* The sequences over S of length at most n.
RECURSIVE SeqsUpTo(_, _)
SeqsUpTo(S, n) ==
    IF n = 0 THEN {<<>>}
    ELSE LET shorter == SeqsUpTo(S, n - 1)
         IN shorter \cup {<<e>> \o t : e \in S, t \in {u \in shorter : Len(u) = n - 1}}

Shapes == {s \in SeqsUpTo(0..MaxDim, MaxRank) : Size(s) <= MaxElems}

\* Every valid axis argument for rank r.
AxisArgs(r) ==
    {AxisNone} \cup {AxisInt(k) : k \in (-r)..(r - 1)}
    \cup {a \in {AxisTuple(t) : t \in SeqsUpTo((-r)..(r - 1), r)} : ValidAxis(a, r)}

Ascending(t) == \A i \in 1..(Len(t) - 1) : t[i] < t[i + 1]

\* One axis argument for each set of axes of rank r (a tuple of ascending
\* non-negative indices), and axis=None.
AxisSubsets(r) ==
    {AxisNone} \cup {AxisTuple(t) : t \in {u \in SeqsUpTo(0..(r - 1), r) : Ascending(u)}}

\* Element values of the inputs: 0, the square root of tiny, -3.0, 4.0 and a
\* value whose square overflows.
SqrtTiny == Pow2(Prec - 1 + EOne - EOne \div 2)
Big == One * Pow2(EMax)
InputVals == {0, SqrtTiny, -3 * One, 4 * One, Big}
FillVals == {0, 3 * One}

Filled(shape, v) == [err |-> "", shape |-> shape, data |-> [i \in Indices(shape) |-> v]]
ArraysOver(shape, V) ==
    {[err |-> "", shape |-> shape, data |-> d] : d \in [Indices(shape) -> V]}

Idle == op = "idle" /\ resY = Absent /\ resN = Absent /\ tr = <<>>

\* Arrays of every shape, constant-filled, with every form of axis argument.
Init ==
    /\ \E s \in Shapes, v \in FillVals : x = Filled(s, v)
    /\ axis \in AxisArgs(Len(x.shape))
    /\ keepdims \in BOOLEAN
    /\ Idle

\* Arrays with at least one element, of every content over InputVals, with
\* every set of reduced axes.
InitValues ==
    /\ \E s \in {t \in Shapes : Size(t) > 0} : x \in ArraysOver(s, InputVals)
    /\ axis \in AxisSubsets(Len(x.shape))
    /\ keepdims \in BOOLEAN
    /\ Idle

\* norm(x, axis=axis, keepdims=keepdims)
Norm ==
    /\ op = "idle"
    /\ op' = "norm"
    /\ \E st \in {NormSteps(x, axis, keepdims)} :
           /\ tr' = [a |-> st.a, b |-> st.b, ss |-> st.ss]
           /\ resN' = st.res
    /\ resY' = Absent
    /\ UNCHANGED <<x, axis, keepdims>>

\* normalize_and_return_norm(x, axis=axis, keepdims=keepdims)
NormalizeAndReturnNorm ==
    /\ op = "idle"
    /\ op' = "normalize_and_return_norm"
    /\ \E st \in {NormalizeSteps(x, axis, keepdims)} :
           /\ tr' = [n0 |-> st.n0, w |-> st.w]
           /\ resY' = st.y
           /\ resN' = st.n
    /\ UNCHANGED <<x, axis, keepdims>>

\* normalize(x, axis=axis): normalize_and_return_norm with keepdims=True, of
\* which the norm is dropped.
Normalize ==
    /\ op = "idle"
    /\ op' = "normalize"
    /\ \E st \in {NormalizeSteps(x, axis, TRUE)} :
           /\ tr' = [n0 |-> st.n0, w |-> st.w]
           /\ resY' = st.y
    /\ resN' = Absent
    /\ UNCHANGED <<x, axis, keepdims>>

Next == Norm \/ NormalizeAndReturnNorm \/ Normalize

\* Every shape and every form of axis argument, constant content.
Spec == Init /\ [][Next]_vars
\* Every content, every set of reduced axes.
SpecValues == InitValues /\ [][Next]_vars

\* ------------------------------------------------------------ properties
NormCalled == op = "norm" /\ IsArray(resN)
PairCalled == op = "normalize_and_return_norm" /\ IsArray(resY) /\ IsArray(resN)
NormalizeCalled == op = "normalize" /\ IsArray(resY)

\* The axes the axis argument names, a negative index counted from the last.
ReducedAxes ==
    LET r == Len(x.shape)
    IN IF axis.kind = "none" THEN 0..(r - 1)
       ELSE {(axis.v[i] + r) % r : i \in 1..Len(axis.v)}

\* e is shape with the axes Ax of size 1 (kept) or removed (not kept).
ReducedShapeIs(e, shape, Ax, kept) ==
    LET r == Len(shape)
    IN IF kept
       THEN /\ Len(e) = r
            /\ \A k \in 0..(r - 1) : e[k + 1] = IF k \in Ax THEN 1 ELSE shape[k + 1]
       ELSE /\ Len(e) = r - Cardinality(Ax)
            /\ \A k \in (0..(r - 1)) \ Ax :
                   e[Cardinality({j \in 0..(k - 1) : j \notin Ax}) + 1] = shape[k + 1]

\* C1: norm(x, axis=k, keepdims) of an array of rank r >= 1, for an index or
\* a tuple of indices k, returns an array whose shape is x's shape with the
\* reduced axes removed (keepdims false; rank r-1 for one index) or of size 1
\* (keepdims true; rank r).
C1_NormShape ==
    (NormCalled /\ Len(x.shape) >= 1 /\ axis.kind # "none") =>
        /\ ReducedShapeIs(resN.shape, x.shape, ReducedAxes, keepdims)
        /\ DOMAIN resN.data = Indices(resN.shape)
        /\ (axis.kind = "int" /\ ~keepdims) => Len(resN.shape) = Len(x.shape) - 1
        /\ keepdims => Len(resN.shape) = Len(x.shape)

C1_Witness ==
    /\ NormCalled /\ x.shape = <<2, 1>> /\ axis = AxisInt(-1) /\ ~keepdims
    /\ resN.shape = <<2>>

C3_PairShapes ==
    PairCalled =>
        /\ resY.shape = x.shape
        /\ DOMAIN resY.data = DOMAIN x.data
        /\ ReducedShapeIs(resN.shape, x.shape, ReducedAxes, keepdims)
        /\ DOMAIN resN.data = Indices(resN.shape)
        /\ (axis.kind = "none" /\ ~keepdims) => resN.shape = <<>>

C3_Witness ==
    /\ PairCalled /\ x.shape = <<2, 2>> /\ axis = AxisTuple(<<-1>>) /\ ~keepdims
    /\ resY.shape = <<2, 2>> /\ resN.shape = <<2>>

\* The norm of line 60 for the slice that holds the element at index i.
SliceNorm(i) == tr.n0.data[SetAxes(i, ReducedAxes, 0)]

AllZero(arr) == \A i \in DOMAIN arr.data : arr.data[i] = 0

\* C5: for an all-zero x, norm has a = tiny and b all zero and returns 0 at
\* every position; normalize returns x, with no NaN, no infinity and no zero
\* divisor.
C5_ZeroInput ==
    /\ (NormCalled /\ AllZero(x)) =>
           /\ tr.a = Tiny
           /\ AllZero(tr.b)
           /\ AllZero(resN)
    /\ (NormalizeCalled /\ AllZero(x)) =>
           /\ resY = x
           /\ \A o \in DOMAIN tr.w.data : tr.w.data[o] # 0

C5_Witness ==
    /\ NormalizeCalled /\ AllZero(x) /\ x.shape = <<2, 2>> /\ axis = AxisTuple(<<1, 0>>)
    /\ resY = x /\ tr.n0.data[<<0, 0>>] = 0

\* The sum of the squares of the elements of x in the slice of the output
\* position o of norm, in squared units.
SliceOf(o) ==
    {i \in DOMAIN x.data :
        (IF keepdims THEN SetAxes(i, ReducedAxes, 0) ELSE DropAxes(i, ReducedAxes)) = o}
RECURSIVE SumOfSquares(_)
SumOfSquares(S) ==
    IF S = {} THEN 0
    ELSE LET i == CHOOSE j \in S : TRUE
         IN x.data[i] * x.data[i] + SumOfSquares(S \ {i})

\* v is the square root of e2 to within the relative tolerance 2^(2 - Prec)
\* (and one unit).
Tol == Pow2(Prec - 2)
Close(v, e2) ==
    LET e == Isqrt(e2)
    IN IsFinite(v) /\ Tol * v >= (Tol - 1) * e /\ Tol * v <= (Tol + 1) * (e + 1)

\* C6 as claimed: norm returns, at every position, the exact L2-norm of the
\* slice (to within the tolerance of the format) whenever that is at most the
\* largest finite value.
C6_ExactNorm ==
    NormCalled =>
        \A o \in DOMAIN resN.data :
            SumOfSquares(SliceOf(o)) <= MaxFinite * MaxFinite =>
                Close(resN.data[o], SumOfSquares(SliceOf(o)))

\* C7: in norm every element of b has magnitude at most 1, so has its
\* square, and every sum of squares is at most the number of elements summed;
\* no local value is infinite; and the norm of the whole array is finite and
\* correct whenever the exact norm is at most the largest finite value.
C7_NoOverflow ==
    NormCalled =>
        /\ IsFinite(tr.a)
        /\ \A i \in DOMAIN tr.b.data :
               /\ Abs(tr.b.data[i]) <= One
               /\ FMul(tr.b.data[i], tr.b.data[i]) <= One
        /\ \A o \in DOMAIN tr.ss.data :
               /\ 0 <= tr.ss.data[o]
               /\ tr.ss.data[o] <= Cardinality(SliceOf(o)) * One
        /\ \A o \in DOMAIN resN.data :
               SumOfSquares(SliceOf(o)) <= MaxFinite * MaxFinite =>
                   IsFinite(resN.data[o])
        /\ (ReducedAxes = 0..(Len(x.shape) - 1)
              /\ SumOfSquares(DOMAIN x.data) <= MaxFinite * MaxFinite) =>
               \A o \in DOMAIN resN.data :
                   Close(resN.data[o], SumOfSquares(DOMAIN x.data))

\* x = [8, 8]: the squares overflow, the norm does not.
C7_Witness ==
    /\ NormCalled /\ x.shape = <<2>> /\ axis.kind = "none"
    /\ x.data[<<0>>] = Big /\ x.data[<<1>>] = Big
    /\ FMul(Big, Big) = PosInf
    /\ IsFinite(resN.data[<<>>]) /\ resN.data[<<>>] > Big

\* C8 as claimed: no call raises.
C8_NeverRaises == resY.err \in {"", "absent"} /\ resN.err \in {"", "absent"}

\* C9: normalize returns the y of normalize_and_return_norm, for keepdims
\* true and for keepdims false.
C9_NormalizeIsY ==
    op = "normalize" =>
        \A kd \in BOOLEAN : resY = normalize_and_return_norm(x, axis, kd).y

C9_Witness ==
    /\ NormalizeCalled /\ x.shape = <<2, 2>> /\ axis = AxisInt(1)
    /\ normalize_and_return_norm(x, axis, FALSE).n.shape = <<2>>
    /\ normalize_and_return_norm(x, axis, TRUE).n.shape = <<2, 1>>
    /\ resY = normalize_and_return_norm(x, axis, FALSE).y

\* C10: no divisor is zero: a >= tiny > 0 in norm, and every element of the
\* divisor of normalize_and_return_norm is 1 or a norm n with n*n > tiny and
\* n > 0.
C10_NoZeroDivisor ==
    /\ NormCalled => (Tiny > 0 /\ tr.a >= Tiny /\ ~IsNaN(tr.a))
    /\ (PairCalled \/ NormalizeCalled) =>
           \A o \in DOMAIN tr.w.data :
               \/ tr.w.data[o] = One
               \/ /\ tr.w.data[o] = tr.n0.data[o]
                  /\ FGreater(FMul(tr.w.data[o], tr.w.data[o]), Tiny)
                  /\ tr.w.data[o] > 0
                  /\ ~IsNaN(tr.w.data[o])

\* A divisor with a norm in one slice and 1 in another, whose norm is 0.
C10_Witness ==
    /\ PairCalled
    /\ \E o, q \in DOMAIN tr.w.data :
           /\ tr.n0.data[o] = 0 /\ tr.w.data[o] = One
           /\ tr.w.data[q] = tr.n0.data[q] /\ tr.w.data[q] # One
====
